---- MODULE Spec2Model ----
(***************************************************************************)
(* Model of the two algorithmic cores of the PlayStudy backend:            *)
(*   - the SM-2 flashcard scheduler (app/models/flashcard.py) and the      *)
(*     review endpoint that drives it (app/api/study_sessions.py);         *)
(*   - the content-based recommender of the internal ML service            *)
(*     (model-service/app/main.py).                                        *)
(*                                                                         *)
(* Numbers.  ease_factor is a Python float; the model keeps it in          *)
(* hundredths (2.5 is 250).  Times are clock ticks, one day is             *)
(* TicksPerDay ticks.                                                      *)
(***************************************************************************)
EXTENDS Integers, Sequences, FiniteSets, TLC

VARIABLES
    card,       \* the Flashcard row handled by the scheduler
    now,        \* datetime.utcnow()
    lastq,      \* quality of the latest review of card (NoReview before any)
    before,     \* interval_days and ease_factor of card before that review
    log,        \* qualities submitted so far (kept by the logged runs only)
    request,    \* RecommendationRequest handled by the ML service
    response,   \* its RecommendationResponse (NoResponse until it is built)
    scaler,     \* recommender.scaler: the StandardScaler of the module-level
                \* ContentBasedRecommender, shared by every call
    calls,      \* the /recommend calls running in the worker threads
    sessions,   \* the review requests in flight, each with its own db Session
    input,      \* the arguments of the function or read-only handler called
    output,     \* what it returned (NoOutput until it returns)
    flashcards, \* the rows of table flashcards, by id
    topics,     \* the rows of table topics of one study session, by id
    study_session   \* the row of that study session in study_sessions

cardVars == <<card, now, lastq, before, log>>
recVars  == <<request, response, scaler>>
fnVars   == <<input, output>>
dbVars   == <<flashcards, topics, study_session>>
vars == <<card, now, lastq, before, log, request, response, scaler,
         calls, sessions, input, output, flashcards, topics, study_session>>

----------------------------------------------------------------------------
(* Bounds *)

MaxReviews == 9      \* reviews of one card in a run
MaxLog     == 4      \* reviews of one card in a logged run
MaxClock   == 1      \* last clock tick
MaxPool    == 3      \* games in all_games
MaxHistory == 2      \* entries in user_play_history
MaxLimit   == 2      \* largest limit requested
MaxDirect  == 3      \* direct calls of the scheduler on one card
MaxPlayed  == 4      \* games in a play history given to get_favorite_games
MaxCards   == 2      \* flashcards of the topic listed
MaxRuns    == 2      \* runs of create_feature_vectors on one pool
MaxVectorized == 2   \* games of any difficulty given to create_feature_vectors
MaxDeckReviews == 3  \* reviews of the flashcards of the table in a run
MaxBatch   == 2      \* updates in one batch-progress request

NoRequest  == [none |-> TRUE]
NoResponse == [none |-> TRUE]
NoCalls    == <<>>
NoSessions == <<>>
NoInput    == [none |-> TRUE]
NoOutput   == [none |-> TRUE]

(* Program constants *)

TicksPerDay    == 1
NoDate         == -1     \* next_review_date / last_reviewed_at IS NULL
NoReview       == -9     \* no review yet (no quality is -9)
DefaultEase    == 250    \* Column(Float, default=2.5)
MinEase        == 130    \* max(1.3, ...)
DefaultInterval == 1
FirstInterval  == 6

Qualities == 0..5        \* FlashcardReviewRequest.quality: ge=0, le=5

----------------------------------------------------------------------------
(* Flashcard (app/models/flashcard.py) *)

\* A row as the INSERT leaves it: column defaults, never reviewed.
Flashcard(id) ==
    [ id |-> id, topic_id |-> 1, front |-> "front", back |-> "back",
      hint |-> "hint", order_index |-> 0,
      ease_factor |-> DefaultEase, interval_days |-> DefaultInterval,
      repetitions |-> 0, next_review_date |-> NoDate,
      last_reviewed_at |-> NoDate, total_reviews |-> 0,
      correct_reviews |-> 0 ]

\* 0.1 - (5 - quality) * (0.08 + (5 - quality) * 0.02), in hundredths
ease_delta(quality) == 10 - (5 - quality) * (8 + (5 - quality) * 2)

Max(a, b) == IF a >= b THEN a ELSE b

ease_update_nofloor(ease, quality) == ease + ease_delta(quality)

\* max(1.3, self.ease_factor + (0.1 - ...))
ease_update(ease, quality) == Max(MinEase, ease + ease_delta(quality))

pass_branch_keep_streak(c, quality) ==
    [c EXCEPT !.correct_reviews = @ + 1,
              !.ease_factor = ease_update(@, quality)]

pass_branch_uncounted(c, quality) ==
    [c EXCEPT !.repetitions = @ + 1,
              !.ease_factor = ease_update(@, quality)]

\* quality >= 3
pass_branch(c, quality) ==
    [c EXCEPT !.correct_reviews = @ + 1,
              !.repetitions = @ + 1,
              !.ease_factor = ease_update(@, quality)]

fail_branch_sm2(c, quality) ==
    [c EXCEPT !.repetitions = 0, !.interval_days = 1,
              !.ease_factor = ease_update(@, quality)]

fail_branch_reset_counters(c, quality) ==
    [c EXCEPT !.repetitions = 0, !.interval_days = 1, !.correct_reviews = 0]

\* quality < 3: "Failed - reset repetitions"
fail_branch(c, quality) ==
    [c EXCEPT !.repetitions = 0, !.interval_days = 1]

truncate_round(i, ease) == { (i * ease + 50) \div 100 }

\* int(self.interval_days * self.ease_factor).  The float product is
\* truncated toward zero.  ease_factor is a binary double: after a few
\* additions of 0.1 and -0.14 it sits a few ulps beside its decimal value
\* (2.5 - 4 * 0.14 + 0 - 0.14 is 1.7999999999999998), so a product whose
\* decimal value is the whole number k comes out as k or as k - 1
\* (100 * 1.7999999999999998 -> 179).  A product with a fractional part is
\* at least 0.01 away from a whole number and always truncates to its floor.
truncate(i, ease) ==
    LET p == i * ease
    IN  IF p % 100 = 0 THEN { p \div 100, (p \div 100) - 1 }
                       ELSE { p \div 100 }

interval_calc_first_one(c) ==
    IF c.repetitions = 0 THEN { 1 }
    ELSE IF c.repetitions = 1 THEN { 1 }
    ELSE truncate(c.interval_days, c.ease_factor)

interval_calc_zero_on_reset(c) ==
    IF c.repetitions = 0 THEN { 0 }
    ELSE IF c.repetitions = 1 THEN { FirstInterval }
    ELSE truncate(c.interval_days, c.ease_factor)

\* "Calculate interval": the values interval_days can take
interval_calc(c) ==
    IF c.repetitions = 0 THEN { 1 }
    ELSE IF c.repetitions = 1 THEN { FirstInterval }
    ELSE truncate(c.interval_days, c.ease_factor)

\* "Calculate interval": the branch of the if / elif / else taken
interval_branch(c) ==
    IF c.repetitions = 0 THEN "repetitions == 0"
    ELSE IF c.repetitions = 1 THEN "repetitions == 1"
    ELSE "else"

\* Flashcard.calculate_next_review(quality); t1 and t2 are the two readings
\* of datetime.utcnow().  The result is the set of rows it can leave.
calculate_next_review(c, quality, t1, t2) ==
    LET c1 == [c EXCEPT !.total_reviews = @ + 1, !.last_reviewed_at = t1]
        c2 == IF quality >= 3 THEN pass_branch(c1, quality)
                              ELSE fail_branch(c1, quality)
    IN  { [c2 EXCEPT !.interval_days = i,
                     !.next_review_date = t2 + i * TicksPerDay]
          : i \in interval_calc(c2) }

\* Flashcard.is_due_for_review()
is_due_for_review(c, t) ==
    IF c.next_review_date = NoDate THEN TRUE ELSE t >= c.next_review_date

----------------------------------------------------------------------------
(* Exact arithmetic for the recommender.  numpy and scikit-learn compute in *)
(* doubles; the model computes the same quantities as reduced fractions,    *)
(* and a cosine similarity as a sign and the square of its value.           *)

Abs(a) == IF a < 0 THEN -a ELSE a
Min(a, b) == IF a <= b THEN a ELSE b

RECURSIVE GCD(_, _)
GCD(a, b) == IF b = 0 THEN a ELSE GCD(b, a % b)

\* the fraction n / d (d # 0) in lowest terms with a positive denominator
Frac(n, d) ==
    LET g == GCD(Abs(n), Abs(d))
        sg == IF d < 0 THEN -1 ELSE 1
    IN  [n |-> sg * (n \div g), d |-> sg * (d \div g)]

RInt(k) == [n |-> k, d |-> 1]
RZero == RInt(0)
ROne == RInt(1)
RAdd(x, y) ==
    LET g == GCD(x.d, y.d)
    IN  Frac(x.n * (y.d \div g) + y.n * (x.d \div g), (x.d \div g) * y.d)
RNeg(x) == [n |-> -x.n, d |-> x.d]
RSub(x, y) == RAdd(x, RNeg(y))
RMul(x, y) ==
    LET a == Frac(x.n, y.d)
        b == Frac(y.n, x.d)
    IN  [n |-> a.n * b.n, d |-> a.d * b.d]
RInv(x) == Frac(x.d, x.n)
RDiv(x, y) == RMul(x, RInv(y))
\* a / b < c / d for a, c >= 0 and b, d > 0, by Euclid's algorithm (no
\* cross product, which could exceed the integer range)
RECURSIVE LtPos(_, _, _, _)
LtPos(a, b, c, d) ==
    IF a \div b # c \div d THEN a \div b < c \div d
    ELSE IF c % d = 0 THEN FALSE
    ELSE IF a % b = 0 THEN TRUE
    ELSE LtPos(d, c % d, b, a % b)

RLt(x, y) ==
    IF x.n < 0
    THEN IF y.n < 0 THEN LtPos(-y.n, y.d, -x.n, x.d) ELSE TRUE
    ELSE IF y.n < 0 THEN FALSE ELSE LtPos(x.n, x.d, y.n, y.d)

RECURSIVE RSum(_)
RSum(s) == IF s = <<>> THEN RZero ELSE RAdd(Head(s), RSum(Tail(s)))

RECURSIVE Sum(_)
Sum(s) == IF s = <<>> THEN 0 ELSE Head(s) + Sum(Tail(s))

\* a similarity score: the real number s * sqrt(q)
Score(s, q) == [s |-> s, q |-> q]
ZeroScore == Score(0, RZero)                    \* 0.0
ScoreLt(x, y) ==
    IF x.s # y.s THEN x.s < y.s
    ELSE IF x.s = 1 THEN RLt(x.q, y.q)
    ELSE IF x.s = -1 THEN RLt(y.q, x.q)
    ELSE FALSE

\* Flashcard.get_accuracy() with streak counted for correct answers
get_accuracy_of_streak(c) ==
    IF c.total_reviews = 0 THEN RZero
    ELSE RMul(Frac(c.repetitions, c.total_reviews), RInt(100))

\* Flashcard.get_accuracy(): (correct_reviews / total_reviews) * 100, or 0.0
\* for a card without reviews.  The float quotient is kept as a fraction.
get_accuracy(c) ==
    IF c.total_reviews = 0 THEN RZero
    ELSE RMul(Frac(c.correct_reviews, c.total_reviews), RInt(100))

----------------------------------------------------------------------------
(* Python lists *)

\* s[:limit]
Take(s, limit) ==
    SubSeq(s, 1, IF limit >= 0 THEN Min(limit, Len(s))
                               ELSE Max(Len(s) + limit, 0))

\* v, computed once (a name bound by a quantifier holds a value, a LET
\* name is re-evaluated where it is used)
Value(v) == CHOOSE r \in {v} : TRUE

\* [x] * limit
Repeat(x, limit) == [i \in 1..Max(limit, 0) |-> x]

\* [f(e) for e in s]
Map(s, f(_)) == [i \in 1..Len(s) |-> f(s[i])]

\* the set of the elements of s
Range(s) == { s[i] : i \in 1..Len(s) }

\* sorted(s, key=..., reverse=True) and list.sort(key=..., reverse=True):
\* descending by key, elements with equal keys in their original order
\* (the sort is stable, also with reverse=True).  Lt compares the keys.
sorted_reverse(s, Lt(_, _)) ==
    LET n == Len(s)
        Eq(a, b) == ~Lt(a, b) /\ ~Lt(b, a)
        pos(i) == 1 + Cardinality({ j \in 1..n : Lt(s[i], s[j]) })
                    + Cardinality({ j \in 1..(i - 1) : Eq(s[i], s[j]) })
    IN  [p \in 1..n |-> s[CHOOSE i \in 1..n : pos(i) = p]]

----------------------------------------------------------------------------
(* ContentBasedRecommender (model-service/app/main.py) *)

MinPlays       == 2      \* get_favorite_games(min_plays=2)
FallbackCount  == 3      \* play_history[:3]
DefaultDifficulty == 2   \* difficulty_map.get(..., 2)
NFeatures      == 6      \* len(feature_vector)

\* The difficulty strings of the model (GameFeature.difficulty: str): the
\* three levels in several spellings, and strings that are no level.
DifficultyStrings ==
    { "easy", "Easy", "EASY", "medium", "Medium", "MEDIUM",
      "hard", "Hard", "HARD", "hArD", "expert", "Expert", "har", " hard", "" }

\* the characters of a difficulty string
chars(str) ==
    CASE str = "easy" -> << "e", "a", "s", "y" >>
      [] str = "Easy" -> << "E", "a", "s", "y" >>
      [] str = "EASY" -> << "E", "A", "S", "Y" >>
      [] str = "medium" -> << "m", "e", "d", "i", "u", "m" >>
      [] str = "Medium" -> << "M", "e", "d", "i", "u", "m" >>
      [] str = "MEDIUM" -> << "M", "E", "D", "I", "U", "M" >>
      [] str = "hard" -> << "h", "a", "r", "d" >>
      [] str = "Hard" -> << "H", "a", "r", "d" >>
      [] str = "HARD" -> << "H", "A", "R", "D" >>
      [] str = "hArD" -> << "h", "A", "r", "D" >>
      [] str = "expert" -> << "e", "x", "p", "e", "r", "t" >>
      [] str = "Expert" -> << "E", "x", "p", "e", "r", "t" >>
      [] str = "har" -> << "h", "a", "r" >>
      [] str = " hard" -> << " ", "h", "a", "r", "d" >>
      [] str = "" -> << >>

UpperCase ==
    << "A", "B", "C", "D", "E", "F", "G", "H", "I", "J", "K", "L", "M",
       "N", "O", "P", "Q", "R", "S", "T", "U", "V", "W", "X", "Y", "Z" >>
LowerCase ==
    << "a", "b", "c", "d", "e", "f", "g", "h", "i", "j", "k", "l", "m",
       "n", "o", "p", "q", "r", "s", "t", "u", "v", "w", "x", "y", "z" >>

\* str.lower() of one character: a cased character becomes its lowercase
\* one, any other character stays
lower_char(ch) ==
    IF \E k \in DOMAIN UpperCase : UpperCase[k] = ch
    THEN LowerCase[CHOOSE k \in DOMAIN UpperCase : UpperCase[k] = ch]
    ELSE ch

\* str.lower(): character by character, nothing stripped
lower(str) ==
    LET lowered == [i \in DOMAIN chars(str) |-> lower_char(chars(str)[i])]
    IN  CHOOSE s \in DifficultyStrings : chars(s) = lowered

\* self.difficulty_map.get(game.difficulty, 2): the key looked up as given
difficulty_map_get_exact(difficulty) ==
    CASE difficulty = "easy" -> 1
      [] difficulty = "medium" -> 2
      [] difficulty = "hard" -> 3
      [] OTHER -> DefaultDifficulty

\* self.difficulty_map.get(game.difficulty.lower(), 2)
difficulty_map_get(difficulty) ==
    CASE lower(difficulty) = "easy" -> 1
      [] lower(difficulty) = "medium" -> 2
      [] lower(difficulty) = "hard" -> 3
      [] OTHER -> DefaultDifficulty

\* categories = list(set(...)); category_map = {cat: i for i, cat in
\* enumerate(categories)}.  A set of strings iterates in hash order, which
\* changes from process to process: every numbering of the categories.
category_maps(games) ==
    LET cats == { games[i].category : i \in 1..Len(games) }
    IN  { m \in [cats -> 0..(Cardinality(cats) - 1)] :
            \A a, b \in cats : a # b => m[a] # m[b] }

\* the rows of np.array(features)
feature_vector(game, category_map) ==
    << difficulty_map_get(game.difficulty),
       game.estimated_time,
       game.xp_reward,
       game.rating,
       game.likes,
       category_map[game.category] >>

features(games, category_map) ==
    [i \in 1..Len(games) |-> feature_vector(games[i], category_map)]

\* StandardScaler(): not fitted
StandardScaler == [n_samples_seen_ |-> 0, mean_ |-> <<>>, var_ |-> <<>>]

\* StandardScaler.fit(X): column means and (population) variances
fit(X) ==
    LET n == Len(X)
        col(c) == [i \in 1..n |-> X[i][c]]
        sq(c) == [i \in 1..n |-> X[i][c] * X[i][c]]
    IN  [n_samples_seen_ |-> n,
         mean_ |-> [c \in 1..NFeatures |-> Frac(Sum(col(c)), n)],
         var_ |-> [c \in 1..NFeatures |->
                     Frac(n * Sum(sq(c)) - Sum(col(c)) * Sum(col(c)), n * n)]]

\* scale_ squared: sqrt(var_), a zero replaced by 1
\* (sklearn _handle_zeros_in_scale)
scale2(sc, c) == IF sc.var_[c].n = 0 THEN ROne ELSE sc.var_[c]

\* StandardScaler.transform(X) with the parameters sc holds: the entry
\* (x - mean_) / scale_ is kept as u / sqrt(s2)
transform(X, sc) ==
    [i \in 1..Len(X) |->
        [c \in 1..NFeatures |->
            [u |-> RSub(RInt(X[i][c]), sc.mean_[c]), s2 |-> scale2(sc, c)]]]

\* np.mean(rows, axis=0)
mean_vector(rows) ==
    [c \in 1..NFeatures |->
        [u |-> RDiv(RSum([k \in 1..Len(rows) |-> rows[k][c].u]),
                    RInt(Len(rows))),
         s2 |-> rows[1][c].s2]]

dot(x, y) ==
    RSum([c \in 1..NFeatures |-> RDiv(RMul(x[c].u, y[c].u), x[c].s2)])

\* sklearn cosine_similarity of two rows; a zero row gives 0
cosine_similarity(x, y) ==
    LET d == dot(x, y)
        nx == dot(x, x)
        ny == dot(y, y)
    IN  IF d.n = 0 \/ nx.n = 0 \/ ny.n = 0 THEN ZeroScore
        ELSE Score(IF d.n > 0 THEN 1 ELSE -1,
                   RMul(RDiv(d, nx), RDiv(d, ny)))

\* get_favorite_games(play_history)
get_favorite_games(play_history) ==
    LET favorites == SelectSeq(play_history,
                               LAMBDA ph : ph.play_count >= MinPlays)
    IN  IF favorites # <<>>
        THEN Map(favorites, LAMBDA ph : ph.game_id)
        ELSE Map(Take(play_history, FallbackCount), LAMBDA ph : ph.game_id)

\* ', '.join(reasons)
RECURSIVE join(_)
join(reasons) ==
    IF Len(reasons) = 0 THEN ""
    ELSE IF Len(reasons) = 1 THEN reasons[1]
    ELSE reasons[1] \o ", " \o join(Tail(reasons))

explain_recommendation_difficulty_first(recommended_game, favorite_game) ==
    LET r1 == IF recommended_game.difficulty = favorite_game.difficulty
              THEN << "same difficulty: " \o recommended_game.difficulty >>
              ELSE << >>
        r2 == IF recommended_game.category = favorite_game.category
              THEN << "same category: " \o recommended_game.category >>
              ELSE << >>
        reasons == r1 \o r2
    IN  IF reasons # << >>
        THEN "Similar to " \o favorite_game.title \o " (" \o join(reasons) \o ")"
        ELSE "Similar to " \o favorite_game.title

\* _explain_recommendation(recommended_game, favorite_game)
explain_recommendation(recommended_game, favorite_game) ==
    LET r1 == IF recommended_game.category = favorite_game.category
              THEN << "same category: " \o recommended_game.category >>
              ELSE << >>
        r2 == IF recommended_game.difficulty = favorite_game.difficulty
              THEN << "same difficulty: " \o recommended_game.difficulty >>
              ELSE << >>
        reasons == r1 \o r2
    IN  IF reasons # << >>
        THEN "Similar to " \o favorite_game.title \o " (" \o join(reasons) \o ")"
        ELSE "Similar to " \o favorite_game.title

\* key=lambda g: (g.rating, g.likes)
popular_lt(a, b) ==
    a.rating < b.rating \/ (a.rating = b.rating /\ a.likes < b.likes)

Response(game_ids, scores, explanations) ==
    [game_ids |-> game_ids, scores |-> scores, explanations |-> explanations]

\* "if not play_history or len(all_games) < 2"
not_enough_data(play_history, all_games) ==
    play_history = <<>> \/ Len(all_games) < 2

popular_games_unplayed(play_history, all_games, limit) ==
    LET sorted_games == sorted_reverse(all_games, popular_lt)
        played_game_ids == Range(Map(play_history, LAMBDA ph : ph.game_id))
        unplayed == SelectSeq(sorted_games,
                              LAMBDA g : g.id \notin played_game_ids)
    IN  Response(Map(Take(unplayed, limit), LAMBDA g : g.id),
                 Repeat(ZeroScore, limit),
                 Repeat("Popular game", limit))

popular_games_by_likes(play_history, all_games, limit) ==
    LET sorted_games ==
            sorted_reverse(all_games,
                           LAMBDA a, b : a.likes < b.likes
                                         \/ (a.likes = b.likes
                                             /\ a.rating < b.rating))
    IN  Response(Map(Take(sorted_games, limit), LAMBDA g : g.id),
                 Repeat(ZeroScore, limit),
                 Repeat("Popular game", limit))

\* recommend, "Not enough data - return popular games"
popular_games(play_history, all_games, limit) ==
    LET sorted_games == sorted_reverse(all_games, popular_lt)
    IN  Response(Map(Take(sorted_games, limit), LAMBDA g : g.id),
                 Repeat(ZeroScore, limit),
                 Repeat("Popular game", limit))

sort_by_score_then_id(recommendations) ==
    LET n == Len(recommendations)
        r(i) == recommendations[i]
        pos(i) == 1 + Cardinality({ j \in 1..n :
                                      ScoreLt(r(i).score, r(j).score) })
                    + Cardinality({ j \in 1..n :
                                      /\ ~ScoreLt(r(i).score, r(j).score)
                                      /\ ~ScoreLt(r(j).score, r(i).score)
                                      /\ r(j).id < r(i).id })
    IN  [p \in 1..n |-> r(CHOOSE i \in 1..n : pos(i) = p)]

sort_by_score_ascending(recommendations) ==
    sorted_reverse(recommendations, LAMBDA a, b : ScoreLt(b.score, a.score))

\* recommendations.sort(key=lambda x: x['score'], reverse=True)
sort_by_score(recommendations) ==
    sorted_reverse(recommendations, LAMBDA a, b : ScoreLt(a.score, b.score))

\* recommend, from "Find user's favorite games" to the end, given the
\* feature matrix create_feature_vectors returned
rank(play_history, all_games, limit, feature_matrix) ==
    LET favorite_game_ids == get_favorite_games(play_history)
        played_game_ids == Range(Map(play_history, LAMBDA ph : ph.game_id))
        n == Len(all_games)
        idx(gid) == CHOOSE i \in 1..n : all_games[i].id = gid
        pool_ids == { all_games[i].id : i \in 1..n }
        favorite_indices ==
            Map(SelectSeq(favorite_game_ids, LAMBDA gid : gid \in pool_ids),
                idx)
    IN  IF favorite_indices = <<>>
        THEN \* "Fallback to popular games"
             popular_games_unplayed(play_history, all_games, limit)
        ELSE
        LET avg_favorite_vector ==
                Value(mean_vector(Map(favorite_indices,
                                      LAMBDA i : feature_matrix[i])))
            favorite_game == all_games[favorite_indices[1]]
            all_recs ==
                [i \in 1..n |->
                    [id |-> all_games[i].id,
                     score |-> cosine_similarity(avg_favorite_vector,
                                                 feature_matrix[i]),
                     explanation |->
                         explain_recommendation(all_games[i], favorite_game)]]
            recommendations ==
                SelectSeq(all_recs, LAMBDA r : r.id \notin played_game_ids)
            top == Take(sort_by_score(recommendations), limit)
        IN  Response(Map(top, LAMBDA r : r.id),
                     Map(top, LAMBDA r : r.score),
                     Map(top, LAMBDA r : r.explanation))

----------------------------------------------------------------------------
(* The tables of the database, in the runs that do not use them *)

DbAtRest ==
    /\ flashcards = <<>>
    /\ topics = <<>>
    /\ study_session = [none |-> TRUE]

----------------------------------------------------------------------------
(* One card, reviewed through the scheduler *)

\* The clock readings of one call: the clock may advance while it runs.
ClockReadings == { <<now, t2>> : t2 \in { t \in {now, now + 1} : t <= MaxClock } }

Reviewed(quality) ==
    /\ card.total_reviews < MaxReviews
    /\ \E r \in ClockReadings :
         /\ now' = r[2]
         /\ card' \in calculate_next_review(card, quality, r[1], r[2])
    /\ lastq' = quality
    /\ before' = [interval_days |-> card.interval_days,
                  ease_factor |-> card.ease_factor,
                  repetitions |-> card.repetitions]

Review ==
    \E quality \in Qualities :
        Reviewed(quality) /\ UNCHANGED log
                          /\ UNCHANGED <<recVars, calls, sessions, fnVars,
                                          dbVars>>

ReviewLogged ==
    /\ Len(log) < MaxLog
    /\ \E quality \in Qualities :
         Reviewed(quality) /\ log' = Append(log, quality)
    /\ UNCHANGED <<recVars, calls, sessions, fnVars, dbVars>>

Tick ==
    /\ now < MaxClock
    /\ now' = now + 1
    /\ UNCHANGED <<card, lastq, before, log>>
    /\ UNCHANGED <<recVars, calls, sessions, fnVars, dbVars>>

InitCard ==
    /\ card = Flashcard(1)
    /\ now = 0
    /\ lastq = NoReview
    /\ before = [interval_days |-> DefaultInterval,
                 ease_factor |-> DefaultEase, repetitions |-> 0]
    /\ log = <<>>
    /\ request = NoRequest
    /\ response = NoResponse
    /\ scaler = StandardScaler
    /\ calls = NoCalls
    /\ sessions = NoSessions
    /\ DbAtRest
    /\ input = NoInput
    /\ output = NoOutput

NextCard == Review \/ Tick

\* any sequence of reviews of one card
SpecCard == InitCard /\ [][NextCard]_vars

NextLog == ReviewLogged \/ Tick

\* the same, with the submitted qualities logged
SpecLog == InitCard /\ [][NextLog]_vars

\* quality: int, as the signature of calculate_next_review takes it; the
\* range 0..5 is enforced by FlashcardReviewRequest, in the endpoint only
AnyQualities == -1..6

\* flashcard.calculate_next_review(quality) called on the model object,
\* without the request schema in front of it
ReviewDirect ==
    /\ card.total_reviews < MaxDirect
    /\ \E quality \in AnyQualities : Reviewed(quality)
    /\ UNCHANGED log
    /\ UNCHANGED <<recVars, calls, sessions, fnVars, dbVars>>

NextDirect == ReviewDirect \/ Tick

\* any sequence of direct calls of the scheduler
SpecDirect == InitCard /\ [][NextDirect]_vars

----------------------------------------------------------------------------
(* One recommendation call: POST /recommend *)

\* The games of the catalogue (GameFeature).  rating is in tenths: the
\* scaler standardises every column, so the unit does not matter.  Games 1-3
\* are the pool of the documented scenario; game 4 has the feature values of
\* game 2 (its difficulty is spelled "Hard").
Catalog ==
    << [id |-> 1, category |-> "Math", difficulty |-> "medium",
        estimated_time |-> 15, xp_reward |-> 50, rating |-> 45,
        likes |-> 100, title |-> "Algebra Quiz"],
       [id |-> 2, category |-> "Math", difficulty |-> "hard",
        estimated_time |-> 20, xp_reward |-> 70, rating |-> 43,
        likes |-> 80, title |-> "Geometry Challenge"],
       [id |-> 3, category |-> "Science", difficulty |-> "hard",
        estimated_time |-> 20, xp_reward |-> 60, rating |-> 46,
        likes |-> 90, title |-> "Physics Equations"],
       [id |-> 4, category |-> "Math", difficulty |-> "Hard",
        estimated_time |-> 20, xp_reward |-> 70, rating |-> 43,
        likes |-> 80, title |-> "Calculus Practice"] >>

GameIds == { Catalog[i].id : i \in 1..Len(Catalog) }

\* game ids a play history can name: two games of the catalogue and a game
\* that is no longer active
HistoryIds == {1, 2, 9}
PlayCounts == {1, 3}

\* the sequences of length k of distinct elements of S
Arrangements(S, k) ==
    { f \in [1..k -> S] : \A i, j \in 1..k : i # j => f[i] # f[j] }

\* all_games: active games, each once, in the order the query returned them
Pools ==
    UNION { { [i \in 1..k |-> Catalog[f[i]]] : f \in Arrangements(GameIds, k) }
            : k \in 0..MaxPool }

\* user_play_history: one entry per played game (GROUP BY game_id)
Histories ==
    UNION { { [i \in 1..k |-> [game_id |-> f[i], play_count |-> pc[i]]]
              : f \in Arrangements(HistoryIds, k), pc \in [1..k -> PlayCounts] }
            : k \in 0..MaxHistory }

\* RecommendationRequest.limit is any int
Limits == -1..MaxLimit

Requests ==
    { [user_play_history |-> h, all_games |-> g, limit |-> l]
      : h \in Histories, g \in Pools, l \in Limits }

\* create_feature_vectors(games) under the numbering category_map: the
\* scaler as fit leaves it and the matrix fit_transform returns
create_feature_vectors(games, category_map) ==
    LET X == features(games, category_map)
        sc == fit(X)
    IN  [scaler |-> sc, feature_matrix |-> transform(X, sc)]

\* get_recommendations(request): recommender.recommend(...) run to completion
Recommend ==
    /\ request # NoRequest
    /\ response = NoResponse
    /\ LET play_history == request.user_play_history
           all_games == request.all_games
           limit == request.limit
       IN  IF not_enough_data(play_history, all_games)
           THEN /\ response' = popular_games(play_history, all_games, limit)
                /\ scaler' = scaler
           ELSE \E category_map \in category_maps(all_games) :
                \E fv \in { create_feature_vectors(all_games, category_map) } :
                      /\ scaler' = fv.scaler
                      /\ response' = rank(play_history, all_games, limit,
                                          fv.feature_matrix)
    /\ UNCHANGED request
    /\ UNCHANGED <<cardVars, calls, sessions, fnVars, dbVars>>

InitRec ==
    /\ request \in Requests
    /\ response = NoResponse
    /\ scaler = StandardScaler
    /\ calls = NoCalls
    /\ sessions = NoSessions
    /\ DbAtRest
    /\ input = NoInput
    /\ output = NoOutput
    /\ card = Flashcard(1)
    /\ now = 0
    /\ lastq = NoReview
    /\ before = [interval_days |-> DefaultInterval,
                 ease_factor |-> DefaultEase, repetitions |-> 0]
    /\ log = <<>>

NextRec == Recommend

\* one call of the ML service on any request
SpecRec == InitRec /\ [][NextRec]_vars

----------------------------------------------------------------------------
(* Two /recommend calls in two worker threads.  get_recommendations is a   *)
(* plain def, so FastAPI runs each call in a thread of its pool; all share *)
(* the module-level recommender and its self.scaler.  fit_transform(X) is  *)
(* fit(X) followed by transform(X); another thread can run between them.   *)

Threads == {1, 2}

\* pools as a query without ORDER BY commonly returns them: by ascending id
AscendingPools ==
    { g \in Pools : \A i, j \in 1..Len(g) : i < j => g[i].id < g[j].id }

ThreadRequests ==
    { [user_play_history |-> h, all_games |-> g, limit |-> MaxLimit]
      : h \in { <<>>, << [game_id |-> 1, play_count |-> 3] >> },
        g \in AscendingPools }

NoMatrix == <<>>

Call(req) ==
    [request |-> req, pc |-> "start", X |-> NoMatrix, used |-> StandardScaler,
     response |-> NoResponse]

\* recommend returns the popular games without touching the scaler
CallPopular(t) ==
    /\ calls[t].pc = "start"
    /\ not_enough_data(calls[t].request.user_play_history,
                       calls[t].request.all_games)
    /\ calls' = [calls EXCEPT
                   ![t].pc = "done",
                   ![t].response =
                       popular_games(calls[t].request.user_play_history,
                                     calls[t].request.all_games,
                                     calls[t].request.limit)]
    /\ UNCHANGED scaler

\* create_feature_vectors up to and including self.scaler.fit(X)
CallFit(t) ==
    /\ calls[t].pc = "start"
    /\ ~not_enough_data(calls[t].request.user_play_history,
                        calls[t].request.all_games)
    /\ \E category_map \in category_maps(calls[t].request.all_games) :
         LET X == features(calls[t].request.all_games, category_map)
         IN  /\ scaler' = fit(X)
             /\ calls' = [calls EXCEPT ![t].pc = "fitted", ![t].X = X]

\* self.scaler.transform(X) with whatever the scaler holds now, and the
\* rest of recommend
CallTransform(t) ==
    /\ calls[t].pc = "fitted"
    /\ \E feature_matrix \in { transform(calls[t].X, scaler) } :
         calls' = [calls EXCEPT
                     ![t].pc = "done",
                     ![t].used = scaler,
                     ![t].response =
                         rank(calls[t].request.user_play_history,
                              calls[t].request.all_games,
                              calls[t].request.limit,
                              feature_matrix)]
    /\ UNCHANGED scaler

InitScaler ==
    /\ calls \in { [t \in Threads |-> Call(r[t])] :
                     r \in [Threads -> ThreadRequests] }
    /\ calls[1].request.all_games # calls[2].request.all_games
    /\ scaler = StandardScaler
    /\ request = NoRequest
    /\ response = NoResponse
    /\ sessions = NoSessions
    /\ DbAtRest
    /\ input = NoInput
    /\ output = NoOutput
    /\ card = Flashcard(1)
    /\ now = 0
    /\ lastq = NoReview
    /\ before = [interval_days |-> DefaultInterval,
                 ease_factor |-> DefaultEase, repetitions |-> 0]
    /\ log = <<>>

NextScaler ==
    \E t \in Threads :
        /\ CallPopular(t) \/ CallFit(t) \/ CallTransform(t)
        /\ UNCHANGED <<cardVars, request, response, sessions, fnVars, dbVars>>

\* two concurrent calls of the ML service with different pools
SpecScaler == InitScaler /\ [][NextScaler]_vars

----------------------------------------------------------------------------
(* Two review submissions for the same flashcard, served by two worker     *)
(* processes of the application on the same database (inside one process   *)
(* the handler is an async def without an await between its query and its  *)
(* commit, so the event loop runs it to the end).  submit_flashcard_review *)
(* loads the row with a plain SELECT (no FOR UPDATE, no version column),   *)
(* calls calculate_next_review on the loaded object and commits; the flush *)
(* writes the attributes whose value changed.                              *)

Requesters == {1, 2}

SchedulingFields ==
    { "ease_factor", "interval_days", "repetitions", "next_review_date",
      "last_reviewed_at", "total_reviews", "correct_reviews" }

NoRow == [none |-> TRUE]

ReviewRequest(quality) ==
    [quality |-> quality, pc |-> "start", loaded |-> NoRow]

\* db.query(Flashcard)...first()
Load(r) ==
    /\ sessions[r].pc = "start"
    /\ sessions' = [sessions EXCEPT ![r].pc = "loaded", ![r].loaded = card]
    /\ UNCHANGED card

\* UPDATE flashcards SET <the attributes that differ from the loaded ones>
flush(row, loaded, obj) ==
    [f \in DOMAIN row |-> IF obj[f] # loaded[f] THEN obj[f] ELSE row[f]]

\* flashcard.calculate_next_review(data.quality); db.commit()
Commit(r) ==
    /\ sessions[r].pc = "loaded"
    /\ \E obj \in calculate_next_review(sessions[r].loaded,
                                        sessions[r].quality, now, now) :
         card' = flush(card, sessions[r].loaded, obj)
    /\ sessions' = [sessions EXCEPT ![r].pc = "done"]

InitConc ==
    /\ card = Flashcard(1)
    /\ sessions \in { [r \in Requesters |-> ReviewRequest(q[r])] :
                        q \in [Requesters -> Qualities] }
    /\ now = 0
    /\ lastq = NoReview
    /\ before = [interval_days |-> DefaultInterval,
                 ease_factor |-> DefaultEase, repetitions |-> 0]
    /\ log = <<>>
    /\ request = NoRequest
    /\ response = NoResponse
    /\ scaler = StandardScaler
    /\ calls = NoCalls
    /\ DbAtRest
    /\ input = NoInput
    /\ output = NoOutput

NextConc ==
    \E r \in Requesters :
        /\ Load(r) \/ Commit(r)
        /\ UNCHANGED <<now, lastq, before, log, recVars, calls, fnVars,
                       dbVars>>

\* two concurrent review submissions for one flashcard
SpecConc == InitConc /\ [][NextConc]_vars

----------------------------------------------------------------------------
(* The parts of the state a run does not use *)

CardAtRest ==
    /\ card = Flashcard(1)
    /\ now = 0
    /\ lastq = NoReview
    /\ before = [interval_days |-> DefaultInterval,
                 ease_factor |-> DefaultEase, repetitions |-> 0]
    /\ log = <<>>

ServiceAtRest ==
    /\ request = NoRequest
    /\ response = NoResponse
    /\ scaler = StandardScaler
    /\ calls = NoCalls
    /\ sessions = NoSessions

----------------------------------------------------------------------------
(* POST /flashcards/{flashcard_id}/review on a table of several flashcards, *)
(* one request at a time.                                                  *)

\* the flashcards of the user's topic as they were inserted: two rows
Deck == [id \in {1, 2} |-> [Flashcard(id) EXCEPT !.order_index = id - 1]]

\* the ids requested: the two flashcards and an id the query does not find
RequestedIds == {1, 2, 3}

submit_flashcard_review_whole_topic(table, flashcard_id, quality, t1, t2) ==
    { [id \in DOMAIN table |->
          IF table[id].topic_id = table[flashcard_id].topic_id
          THEN [obj EXCEPT !.id = id, !.order_index = table[id].order_index]
          ELSE table[id]]
      : obj \in calculate_next_review(table[flashcard_id], quality, t1, t2) }

\* flashcard.calculate_next_review(data.quality); db.commit() on the row
\* the query returned: the tables the request can leave
submit_flashcard_review(table, flashcard_id, quality, t1, t2) ==
    { [table EXCEPT ![flashcard_id] = flush(@, @, obj)]
      : obj \in calculate_next_review(table[flashcard_id], quality, t1, t2) }

\* submit_flashcard_review(flashcard_id, data): 404 when the query finds no
\* flashcard of the user with that id
SubmitFlashcardReview ==
    /\ \E flashcard_id \in RequestedIds, quality \in Qualities :
         /\ input' = [flashcard_id |-> flashcard_id]
         /\ IF flashcard_id \notin DOMAIN flashcards
            THEN /\ output' = [status_code |-> 404]
                 /\ UNCHANGED <<flashcards, now>>
            ELSE /\ flashcards[1].total_reviews + flashcards[2].total_reviews
                      < MaxDeckReviews
                 /\ \E r \in ClockReadings :
                      /\ now' = r[2]
                      /\ flashcards' \in
                            submit_flashcard_review(flashcards, flashcard_id,
                                                    quality, r[1], r[2])
                 /\ output' =
                       [status_code |-> 200,
                        flashcard_id |-> flashcard_id,
                        total_reviews |->
                            flashcards'[flashcard_id].total_reviews]
    /\ UNCHANGED <<card, lastq, before, log, recVars, calls, sessions, topics,
                   study_session>>

InitDeck ==
    /\ flashcards = Deck
    /\ topics = <<>>
    /\ study_session = [none |-> TRUE]
    /\ input = NoInput
    /\ output = NoOutput
    /\ CardAtRest
    /\ ServiceAtRest

DeckTick ==
    /\ now < MaxClock
    /\ now' = now + 1
    /\ UNCHANGED <<card, lastq, before, log, recVars, calls, sessions, fnVars,
                   dbVars>>

NextDeck == SubmitFlashcardReview \/ DeckTick

\* any sequence of reviews of the flashcards of the table
SpecDeck == InitDeck /\ [][NextDeck]_vars

----------------------------------------------------------------------------
(* The workflow of the topics of one study session:                        *)
(* PATCH /{session_id}/topics/{topic_id}/progress, POST /batch-progress    *)
(* and POST /topics/{topic_id}/flashcards/complete, one request at a time, *)
(* all by the owner of the session.                                        *)

TopicIds == {1, 2, 3}

\* an id no topic of the session has
MissingTopic == 4

\* a Topic row as create_topic_recursive inserts it.  The array
\* prerequisite_topic_ids is read with `contains` and `in_` only: a set.
Topic(id, is_category, workflow_stage, prerequisite_topic_ids) ==
    [ id |-> id, is_category |-> is_category,
      workflow_stage |-> workflow_stage,
      prerequisite_topic_ids |-> prerequisite_topic_ids,
      score |-> 0, current_question_index |-> 0, completed |-> FALSE ]

\* "First leaf topic (non-category) should be quiz_available, all others
\* locked": the topics are created in the order of their ids
initial_workflow_stage(id, categories) ==
    IF id \notin categories /\ \A j \in 1..(id - 1) : j \in categories
    THEN "quiz_available"
    ELSE "locked"

\* the sessions: topic 1 a category or a leaf, and every topic with any
\* set of earlier topics as its prerequisites
StudySessions ==
    { [id \in TopicIds |->
          Topic(id, id \in categories,
                initial_workflow_stage(id, categories), prerequisites[id])]
      : categories \in { {}, {1} },
        prerequisites \in { p \in [TopicIds -> SUBSET TopicIds] :
                              \A id \in TopicIds : p[id] \subseteq 1..(id - 1) } }

\* score (ge=0, le=100) and current_question_index (ge=0) of a progress
\* report.  The handlers copy them to the row and read them nowhere; the
\* reports of the model carry the values a new row has.
Scores == {0}
QuestionIndexes == {0}

\* TopicProgressUpdate / the body of update_topic_progress
ProgressData ==
    [score : Scores, current_question_index : QuestionIndexes,
     completed : BOOLEAN]

\* session.progress: int(completed_topics / total_topics * 100) over the
\* leaf topics, 0 without leaf topics
session_progress(rows) ==
    LET all_topics == { id \in DOMAIN rows : ~rows[id].is_category }
        completed_topics ==
            Cardinality({ id \in all_topics : rows[id].completed })
        total_topics == Cardinality(all_topics)
    IN  IF total_topics > 0 THEN (completed_topics * 100) \div total_topics
        ELSE 0

\* update_topic_progress, "Update topic progress" and "Handle workflow
\* stage transitions", on the row found
update_topic_progress(topic, data) ==
    LET t == [topic EXCEPT !.score = data.score,
                           !.current_question_index =
                               data.current_question_index,
                           !.completed = data.completed]
    IN  IF data.completed /\ t.workflow_stage = "quiz_available"
        THEN [t EXCEPT !.workflow_stage = "flashcard_review"]
        ELSE t

\* update_topic_progress(session_id, topic_id, data)
UpdateTopicProgress ==
    /\ \E topic_id \in TopicIds \cup {MissingTopic}, data \in ProgressData :
         IF topic_id \notin DOMAIN topics
         THEN /\ output' = [handler |-> "update_topic_progress",
                            status_code |-> 404]
              /\ UNCHANGED <<topics, study_session>>
         ELSE /\ topics' = [topics EXCEPT
                               ![topic_id] = update_topic_progress(@, data)]
              /\ study_session' =
                    [study_session EXCEPT !.progress = session_progress(topics')]
              /\ output' = [handler |-> "update_topic_progress",
                            status_code |-> 200,
                            topic_id |-> topic_id]
    /\ UNCHANGED <<cardVars, recVars, calls, sessions, input, flashcards>>

\* BatchProgressUpdate.updates: min_items=1
BatchUpdates ==
    UNION { [1..k -> [topic_id : TopicIds \cup {MissingTopic},
                      score : Scores,
                      current_question_index : QuestionIndexes,
                      completed : BOOLEAN]]
            : k \in 1..MaxBatch }

\* batch_update_progress, the body of `if topic:`
batch_update(topic, update) ==
    [topic EXCEPT !.score = update.score,
                  !.current_question_index = update.current_question_index,
                  !.completed = update.completed]

\* batch_update_progress, "Process all updates": the updates one after the
\* other, an update of a topic that is not found skipped
RECURSIVE process_all_updates(_, _)
process_all_updates(rows, updates) ==
    IF updates = <<>> THEN rows
    ELSE LET update == Head(updates)
         IN  process_all_updates(
                 IF update.topic_id \in DOMAIN rows
                 THEN [rows EXCEPT ![update.topic_id] = batch_update(@, update)]
                 ELSE rows,
                 Tail(updates))

\* batch_update_progress(data)
BatchUpdateProgress ==
    /\ \E updates \in BatchUpdates :
         /\ topics' = process_all_updates(topics, updates)
         /\ study_session' =
               [study_session EXCEPT !.progress = session_progress(topics')]
         /\ output' =
               [handler |-> "batch_update_progress",
                status_code |-> 200,
                topics_updated |->
                    Cardinality({ i \in 1..Len(updates) :
                                    updates[i].topic_id \in DOMAIN topics })]
    /\ UNCHANGED <<cardVars, recVars, calls, sessions, input, flashcards>>

any_prerequisite_completed(rows, dependent) ==
    \E prereq \in DOMAIN rows :
        /\ prereq \in dependent.prerequisite_topic_ids
        /\ rows[prereq].workflow_stage = "completed"

\* all(prereq.workflow_stage == "completed" for prereq in prerequisites),
\* prerequisites the topics whose id is in dependent.prerequisite_topic_ids
all_prerequisites_completed(rows, dependent) ==
    \A prereq \in DOMAIN rows :
        prereq \in dependent.prerequisite_topic_ids
            => rows[prereq].workflow_stage = "completed"

\* mark_flashcards_complete from "Update topic workflow stage to completed"
\* on: the rows it leaves.  The dependents are handled one by one; none of
\* them reads what the loop wrote for another.
mark_flashcards_complete(rows, topic_id) ==
    LET done == [rows EXCEPT ![topic_id].workflow_stage = "completed",
                             ![topic_id].completed = TRUE]
        dependent_topics ==
            { id \in DOMAIN done : topic_id \in done[id].prerequisite_topic_ids }
        unlocked == { id \in dependent_topics :
                        /\ done[id].prerequisite_topic_ids # {}
                        /\ all_prerequisites_completed(done, done[id])
                        /\ done[id].workflow_stage = "locked" }
    IN  [id \in DOMAIN done |->
            IF id \in unlocked
            THEN [done[id] EXCEPT !.workflow_stage = "quiz_available"]
            ELSE done[id]]

\* mark_flashcards_complete(topic_id); unlocked_topics is returned in the
\* order of a query without ORDER BY and kept here as the set of its ids
MarkFlashcardsComplete ==
    /\ \E topic_id \in TopicIds \cup {MissingTopic} :
         IF topic_id \notin DOMAIN topics
         THEN /\ output' = [handler |-> "mark_flashcards_complete",
                            status_code |-> 404]
              /\ UNCHANGED topics
         ELSE /\ topics' = mark_flashcards_complete(topics, topic_id)
              /\ output' =
                    [handler |-> "mark_flashcards_complete",
                     status_code |-> 200,
                     topic_id |-> topic_id,
                     unlocked_topics |->
                         { id \in DOMAIN topics :
                             /\ id # topic_id
                             /\ topics'[id].workflow_stage
                                    # topics[id].workflow_stage }]
    /\ UNCHANGED study_session
    /\ UNCHANGED <<cardVars, recVars, calls, sessions, input, flashcards>>

InitTopics ==
    /\ topics \in StudySessions
    /\ study_session = [progress |-> 0]
    /\ flashcards = <<>>
    /\ input = NoInput
    /\ output = NoOutput
    /\ CardAtRest
    /\ ServiceAtRest

NextTopics ==
    UpdateTopicProgress \/ BatchUpdateProgress \/ MarkFlashcardsComplete

\* any sequence of topic operations on one study session
SpecTopics == InitTopics /\ [][NextTopics]_vars

----------------------------------------------------------------------------
(* get_favorite_games on the play history of one user.  The history is what *)
(* get_user_play_history sends: one row per played game, play_count the    *)
(* COUNT of the user's sessions of that game (at least 1), the rows in the *)
(* order the GROUP BY query returned them (it has no ORDER BY).            *)

PlayedGames == 1..MaxPlayed

PlayHistories ==
    UNION { { [i \in 1..k |-> [game_id |-> f[i], play_count |-> pc[i]]]
              : f \in Arrangements(PlayedGames, k),
                pc \in [1..k -> 1..MinPlays] }
            : k \in 0..MaxPlayed }

\* favorite_game_ids = self.get_favorite_games(play_history)
GetFavorites ==
    /\ input # NoInput
    /\ output = NoOutput
    /\ output' = [favorite_game_ids |-> get_favorite_games(input.play_history)]
    /\ UNCHANGED input
    /\ UNCHANGED <<cardVars, recVars, calls, sessions, dbVars>>

InitFav ==
    /\ input \in { [play_history |-> h] : h \in PlayHistories }
    /\ output = NoOutput
    /\ CardAtRest
    /\ ServiceAtRest
    /\ DbAtRest

NextFav == GetFavorites

\* get_favorite_games on any play history
SpecFav == InitFav /\ [][NextFav]_vars

----------------------------------------------------------------------------
(* create_feature_vectors run again and again on one pool, by the worker   *)
(* processes of the service.  categories = list(set(...)) lists the        *)
(* category strings in the iteration order of a set, which follows their   *)
(* hashes; str hashes are salted per process (PYTHONHASHSEED), so the      *)
(* order is fixed inside a process and differs from process to process.    *)

Processes == {1, 2}

\* a pool, and the numbering of its categories in each process
VectorizeInputs ==
    UNION { { [games |-> g, category_map |-> cm]
              : cm \in [Processes -> category_maps(g)] }
            : g \in Pools \ { <<>> } }

\* feature_matrix, category_map = create_feature_vectors(games) in process p;
\* the scaler of that process and the rows of `features` are kept with the
\* run
Vectorize ==
    /\ input # NoInput
    /\ Len(output.runs) < MaxRuns
    /\ \E p \in Processes :
       \E fv \in { create_feature_vectors(input.games, input.category_map[p]) } :
            output' = [runs |-> Append(output.runs,
                                      [process |-> p,
                                       category_map |-> input.category_map[p],
                                       features |->
                                           features(input.games,
                                                    input.category_map[p]),
                                       scaler |-> fv.scaler,
                                       feature_matrix |-> fv.feature_matrix])]
    /\ UNCHANGED input
    /\ UNCHANGED <<cardVars, recVars, calls, sessions, dbVars>>

InitVec ==
    /\ input \in VectorizeInputs
    /\ output = [runs |-> <<>>]
    /\ CardAtRest
    /\ ServiceAtRest
    /\ DbAtRest

NextVec == Vectorize

\* runs of create_feature_vectors on the same pool
SpecVec == InitVec /\ [][NextVec]_vars

\* pools of one or two games whose difficulty is any string of the model
DifficultyPools ==
    UNION { { [i \in 1..k |-> [Catalog[f[i]] EXCEPT !.difficulty = d[i]]]
              : f \in Arrangements({1, 3}, k),
                d \in [1..k -> DifficultyStrings] }
            : k \in 1..MaxVectorized }

InitDifficulty ==
    /\ input \in UNION { { [games |-> g, category_map |-> cm]
                           : cm \in [Processes -> category_maps(g)] }
                         : g \in DifficultyPools }
    /\ output = [runs |-> <<>>]
    /\ CardAtRest
    /\ ServiceAtRest
    /\ DbAtRest

\* create_feature_vectors on games of any difficulty
SpecDifficulty == InitDifficulty /\ [][NextVec]_vars

----------------------------------------------------------------------------
(* _explain_recommendation on two games.  It is a method that reads its    *)
(* two arguments only (self is not used).                                  *)

\* games as the catalogue can hold them: the first two games of the model
\* in either category and at several difficulties
ExplainedGames ==
    { [Catalog[k] EXCEPT !.category = c, !.difficulty = d]
      : k \in 1..2, c \in {"Math", "Science"},
        d \in {"medium", "hard", "Hard"} }

\* self._explain_recommendation(recommended_game, favorite_game)
Explain ==
    /\ input # NoInput
    /\ output = NoOutput
    /\ output' = [explanation |->
                     explain_recommendation(input.recommended_game,
                                            input.favorite_game)]
    /\ UNCHANGED input
    /\ UNCHANGED <<cardVars, recVars, calls, sessions, dbVars>>

InitExplain ==
    /\ input \in { [recommended_game |-> g, favorite_game |-> f]
                   : g \in ExplainedGames, f \in ExplainedGames }
    /\ output = NoOutput
    /\ CardAtRest
    /\ ServiceAtRest
    /\ DbAtRest

NextExplain == Explain

\* _explain_recommendation on any two games
SpecExplain == InitExplain /\ [][NextExplain]_vars

----------------------------------------------------------------------------
(* GET /topics/{topic_id}/flashcards on a topic whose cards are new or were *)
(* reviewed once.  The handler calls f.is_due_for_review() once per card   *)
(* for the "is_due" fields and once more per card for "due_for_review";    *)
(* every call reads datetime.utcnow() itself.                              *)

\* the rows a card can have after no review or one review at time 0
RowsOf(id) ==
    { Flashcard(id) }
        \cup UNION { calculate_next_review(Flashcard(id), quality, 0, 0)
                     : quality \in Qualities }

\* the flashcards of the topic, by order_index
Topics ==
    UNION { { f \in [1..k -> UNION { RowsOf(id) : id \in 1..k }] :
                \A i \in 1..k : f[i].id = i }
            : k \in 0..MaxCards }

\* the readings of the clock by k calls in a row, from time t on
Readings(k, t) ==
    { r \in [1..k -> t..MaxClock] : \A i, j \in 1..k : i < j => r[i] <= r[j] }

\* get_topic_flashcards(topic_id)
GetTopicFlashcards ==
    /\ input # NoInput
    /\ output = NoOutput
    /\ LET listed == input.flashcards
           n == Len(listed)
       IN  \E r \in Readings(2 * n, now) :
             /\ output' =
                   [flashcards |->
                        [i \in 1..n |->
                            [id |-> listed[i].id,
                             next_review_date |-> listed[i].next_review_date,
                             accuracy |-> get_accuracy(listed[i]),
                             is_due |-> is_due_for_review(listed[i], r[i])]],
                    total_flashcards |-> n,
                    due_for_review |->
                        Cardinality({ i \in 1..n :
                            is_due_for_review(listed[i], r[n + i]) }),
                    started |-> now]
             /\ now' = IF n = 0 THEN now ELSE r[2 * n]
    /\ UNCHANGED input
    /\ UNCHANGED <<card, lastq, before, log, recVars, calls, sessions, dbVars>>

InitDue ==
    /\ input \in { [flashcards |-> f] : f \in Topics }
    /\ output = NoOutput
    /\ CardAtRest
    /\ ServiceAtRest
    /\ DbAtRest

NextDue == GetTopicFlashcards \/ Tick

\* one listing of a topic's flashcards, at any time
SpecDue == InitDue /\ [][NextDue]_vars

----------------------------------------------------------------------------
(* Properties of the scheduler *)

\* a step that is a review of card
ReviewStep == card'.total_reviews = card.total_reviews + 1

\* round(p / 100) as Python 3 rounds: to the nearest integer, halves to even
round_half_even(p) ==
    LET f == p \div 100
        r == p % 100
    IN  IF r < 50 THEN f
        ELSE IF r > 50 THEN f + 1
        ELSE IF f % 2 = 0 THEN f ELSE f + 1

\* i is the product p / 100 cut down to an integer: never above the product,
\* and less than one below it (exactly one below it only for a whole product
\* whose float value fell short)
Truncated(i, p) == i * 100 <= p /\ p <= (i + 1) * 100

AllFives(s) == \A k \in 1..Len(s) : s[k] = 5

\* C2: after any sequence of reviews with qualities 0..5 of a card that
\* starts at ease_factor 2.5, ease_factor is at least 1.3.
C2_EaseFloor == card.ease_factor >= MinEase

\* the floor acted: a quality 3 review would have taken ease below 1.3
C2_Witness ==
    /\ lastq = 3
    /\ before.ease_factor + ease_delta(3) < MinEase
    /\ card.ease_factor = MinEase

\* C3: a failing review (quality 0, 1, 2), in any reachable state, sets
\* repetitions to 0 and interval_days to 1 and leaves ease_factor as it was.
C3_FailResets ==
    [][(ReviewStep /\ lastq' < 3) =>
          /\ card'.repetitions = 0
          /\ card'.interval_days = 1
          /\ card'.ease_factor = card.ease_factor]_vars

\* a failure after a streak of passes that had moved ease_factor
C3_Witness ==
    /\ lastq \in 0..2
    /\ before.repetitions >= 2
    /\ before.ease_factor # DefaultEase
    /\ before.interval_days > FirstInterval
    /\ card.repetitions = 0

Passes(s) == Cardinality({ k \in 1..Len(s) : s[k] >= 3 })

\* C15: accuracy is correct_reviews / total_reviews x 100, and 0.0 for a
\* card with total_reviews 0: a never-reviewed card has accuracy 0.0, a
\* card with one passing and one failing review, in either order, 50.0
\* (and after any reviews, 100 x passes / reviews).
C15_Accuracy ==
    /\ card.total_reviews = 0 => get_accuracy(card) = RZero
    /\ card.total_reviews > 0 =>
          get_accuracy(card) = Frac(100 * card.correct_reviews,
                                    card.total_reviews)
    /\ log = <<>> => get_accuracy(card) = RZero
    /\ (Len(log) = 2 /\ Passes(log) = 1) => get_accuracy(card) = RInt(50)
    /\ Len(log) > 0 => get_accuracy(card) = Frac(100 * Passes(log), Len(log))

\* a pass followed by a failure, which resets the streak but not the counters
C15_Witness ==
    /\ Len(log) = 2
    /\ log[1] >= 3
    /\ log[2] < 3
    /\ card.repetitions = 0
    /\ get_accuracy(card) = RInt(50)

\* isDue(card, t) as the claim of C16 defines it
IsDue(c, t) == c.next_review_date = NoDate \/ t >= c.next_review_date

\* C16: isDue(card, now) is true exactly when next_review_date is unset or
\* now >= next_review_date, and the due_for_review count of a topic is the
\* number of its flashcards for which isDue is true: there is a time `now`
\* of the request at which every reported is_due and the reported count
\* are those of isDue.
C16_DueCount ==
    output # NoOutput =>
        \E t \in output.started..now :
            /\ \A i \in DOMAIN output.flashcards :
                 output.flashcards[i].is_due = IsDue(input.flashcards[i], t)
            /\ output.due_for_review =
                 Cardinality({ i \in DOMAIN input.flashcards :
                                 IsDue(input.flashcards[i], t) })

\* C11: a review with a quality outside 0..5 is rejected by the scheduler
\* operation itself and leaves every scheduling field of the card unchanged.
C11_QualityChecked ==
    [][(ReviewStep /\ lastq' \notin Qualities) =>
          \A f \in SchedulingFields : card'[f] = card[f]]_vars

\* C17: after every review, pass or fail, next_review_date is the time
\* stored in last_reviewed_at by that review plus the new interval_days
\* days, also when the clock advances while the review is processed.
C17_NextReviewDate ==
    card.total_reviews > 0 =>
        card.next_review_date =
            card.last_reviewed_at + card.interval_days * TicksPerDay

\* a step that appends a review to the log
LoggedStep == Len(log') = Len(log) + 1

\* C18: total_reviews and correct_reviews never decrease: every review
\* adds exactly 1 to total_reviews, a passing review adds exactly 1 to
\* correct_reviews, a failing review leaves correct_reviews (and
\* ease_factor) as they were and resets repetitions to 0 and interval_days
\* to 1.
C18_Counters ==
    [][/\ card'.total_reviews >= card.total_reviews
       /\ card'.correct_reviews >= card.correct_reviews
       /\ LoggedStep =>
            /\ card'.total_reviews = card.total_reviews + 1
            /\ lastq' >= 3 =>
                  card'.correct_reviews = card.correct_reviews + 1
            /\ lastq' < 3 =>
                  /\ card'.correct_reviews = card.correct_reviews
                  /\ card'.ease_factor = card.ease_factor
                  /\ card'.repetitions = 0
                  /\ card'.interval_days = 1]_vars

\* a failure after two passes: the streak is gone, the counters are kept
C18_Witness ==
    /\ Len(log) = 3
    /\ log[1] >= 3 /\ log[2] >= 3 /\ log[3] < 3
    /\ card.total_reviews = 3
    /\ card.correct_reviews = 2
    /\ card.repetitions = 0

\* C19: in every state reachable from a fresh card by reviews with
\* qualities 0..5, interval_days is an integer >= 1 and repetitions an
\* integer >= 0.
C19_Ranges ==
    /\ card.interval_days \in Nat
    /\ card.interval_days >= 1
    /\ card.repetitions \in Nat

\* the smallest values are taken again after larger ones: a failure that
\* reset an interval that had come out of the truncation
C19_Witness ==
    /\ lastq \in 0..2
    /\ before.repetitions >= 3
    /\ before.interval_days > FirstInterval
    /\ card.interval_days = 1
    /\ card.repetitions = 0

\* C24: in the interval calculation of a review, the `repetitions == 0`
\* branch is never taken by a passing review (quality >= 3) from any
\* reachable card state; it is taken only by failing reviews.  (The
\* interval calculation does not assign repetitions, so the branch taken is
\* the one of the row the review leaves.)
C24_ZeroBranchOnFailOnly ==
    [][ReviewStep =>
          /\ lastq' >= 3 =>
                /\ card'.repetitions = card.repetitions + 1
                /\ interval_branch(card') # "repetitions == 0"
          /\ interval_branch(card') = "repetitions == 0" => lastq' < 3]_vars

\* a pass right after a failure: repetitions was 0 when the review began,
\* and the interval came from the `repetitions == 1` branch
C24_Witness ==
    /\ lastq >= 3
    /\ card.total_reviews >= 2
    /\ before.repetitions = 0
    /\ interval_branch(card) = "repetitions == 1"
    /\ card.interval_days = FirstInterval

ContentFields == { "id", "topic_id", "front", "back", "hint", "order_index" }

\* the review of flashcard a (quality qa, clock readings ra) and the review
\* of flashcard b leave the same tables in either order
Commute(a, qa, ra, b, qb, rb) ==
    UNION { submit_flashcard_review(t, b, qb, rb[1], rb[2])
            : t \in submit_flashcard_review(flashcards, a, qa, ra[1], ra[2]) }
  = UNION { submit_flashcard_review(t, a, qa, ra[1], ra[2])
            : t \in submit_flashcard_review(flashcards, b, qb, rb[1], rb[2]) }

\* C25: a review of one flashcard changes only that flashcard's scheduling
\* fields: its own front, back, hint, topic and order are unchanged, and
\* every field of every other flashcard is unchanged, so reviews of
\* different flashcards commute (each review taken with its quality and
\* its clock readings).
C25_Frame ==
    /\ [][/\ DOMAIN flashcards' = DOMAIN flashcards
          /\ \A id \in DOMAIN flashcards :
               \A f \in DOMAIN flashcards[id] :
                   flashcards'[id][f] # flashcards[id][f] =>
                       /\ id = input'.flashcard_id
                       /\ f \in SchedulingFields
                       /\ f \notin ContentFields]_vars
    /\ [](\A a, b \in DOMAIN flashcards :
            a < b =>
                \A qa, qb \in Qualities :
                    Commute(a, qa, <<now, now>>, b, qb, <<now, MaxClock>>))

\* both flashcards were reviewed, the second one last, and the first one
\* still holds what its own review left
C25_Witness ==
    /\ flashcards # <<>>
    /\ output # NoOutput
    /\ output.status_code = 200
    /\ output.flashcard_id = 2
    /\ flashcards[2].total_reviews = 1
    /\ flashcards[2].repetitions = 0
    /\ flashcards[1].total_reviews = 2
    /\ flashcards[1].repetitions = 2
    /\ flashcards[1].front = Flashcard(1).front

\* C28: in every state reachable from a fresh flashcard by any sequence of
\* reviews, 0 <= repetitions <= correct_reviews <= total_reviews, hence
\* accuracy is always within 0..100.
C28_CounterOrder ==
    /\ 0 <= card.repetitions
    /\ card.repetitions <= card.correct_reviews
    /\ card.correct_reviews <= card.total_reviews
    /\ ~RLt(get_accuracy(card), RZero)
    /\ ~RLt(RInt(100), get_accuracy(card))

\* a pass, a failure and a pass: the three counters differ and accuracy is
\* strictly inside its range
C28_Witness ==
    /\ card.total_reviews = 3
    /\ card.correct_reviews = 2
    /\ card.repetitions = 1
    /\ lastq >= 3
    /\ RLt(RZero, get_accuracy(card))
    /\ RLt(get_accuracy(card), RInt(100))

----------------------------------------------------------------------------
(* Properties of the topic workflow *)

\* the step is a successful mark_flashcards_complete of topic t
Completes(t) ==
    /\ output'.handler = "mark_flashcards_complete"
    /\ output'.status_code = 200
    /\ output'.topic_id = t

\* C26: marking flashcards complete is the final step of the workflow
\* quiz -> flashcards -> complete: in every sequence of topic operations a
\* topic's workflow_stage becomes 'completed' only from 'flashcard_review',
\* i.e. only after its quiz was completed while it was 'quiz_available'
\* (which is the only way into 'flashcard_review'); a 'locked' or
\* 'quiz_available' topic never becomes 'completed' directly.
C26_CompletedLast ==
    [][\A id \in DOMAIN topics :
          /\ (topics'[id].workflow_stage = "completed"
                 /\ topics[id].workflow_stage # "completed")
                => topics[id].workflow_stage = "flashcard_review"
          /\ (topics'[id].workflow_stage = "flashcard_review"
                 /\ topics[id].workflow_stage # "flashcard_review")
                => /\ topics[id].workflow_stage = "quiz_available"
                   /\ topics'[id].completed]_vars

\* C27: a topic with prerequisites leaves 'locked' for 'quiz_available'
\* only when every one of its prerequisite topics has workflow_stage
\* 'completed', and when the last of its prerequisites is marked complete
\* it is unlocked in that same operation; completing a topic never changes
\* the stage of a dependent that is not 'locked'.
C27_Unlock ==
    [][\A id \in DOMAIN topics :
          LET prerequisites == topics[id].prerequisite_topic_ids
          IN  /\ (prerequisites # {}
                    /\ topics[id].workflow_stage = "locked"
                    /\ topics'[id].workflow_stage = "quiz_available")
                   => \A p \in prerequisites :
                          topics'[p].workflow_stage = "completed"
              /\ \A t \in prerequisites :
                    Completes(t) =>
                        /\ (topics[id].workflow_stage = "locked"
                              /\ \A p \in prerequisites :
                                    topics'[p].workflow_stage = "completed")
                             => /\ topics'[id].workflow_stage = "quiz_available"
                                /\ id \in output'.unlocked_topics
                        /\ topics[id].workflow_stage # "locked"
                             => topics'[id].workflow_stage
                                    = topics[id].workflow_stage]_vars

\* topic 3 waited for topics 1 and 2 and was unlocked by the completion of
\* topic 2, the last of the two
C27_Witness ==
    /\ topics # <<>>
    /\ output # NoOutput
    /\ output.handler = "mark_flashcards_complete"
    /\ output.status_code = 200
    /\ output.topic_id = 2
    /\ output.unlocked_topics = {3}
    /\ topics[3].prerequisite_topic_ids = {1, 2}
    /\ topics[3].workflow_stage = "quiz_available"
    /\ topics[1].workflow_stage = "completed"
    /\ topics[2].workflow_stage = "completed"

\* C30: after any sequence of update_topic_progress, batch_update_progress
\* and mark_flashcards_complete calls, a topic whose completed flag is true
\* has workflow_stage 'flashcard_review' or 'completed'; reporting a quiz
\* as completed through the batch endpoint advances the workflow stage
\* exactly as the single-topic endpoint does.
C30_CompletedFlag ==
    /\ [](\A id \in DOMAIN topics :
            topics[id].completed =>
                topics[id].workflow_stage \in {"flashcard_review", "completed"})
    /\ [][output'.handler = "batch_update_progress" =>
            \A id \in DOMAIN topics :
                (topics'[id].completed /\ ~topics[id].completed) =>
                    \E data \in ProgressData :
                        /\ data.completed
                        /\ topics'[id] = update_topic_progress(topics[id], data)]_vars

----------------------------------------------------------------------------
(* Properties of the recommender *)

Responded == response # NoResponse

PlayedIds == { request.user_play_history[i].game_id
               : i \in 1..Len(request.user_play_history) }

PoolIds == { request.all_games[i].id : i \in 1..Len(request.all_games) }

Game(id) == Catalog[CHOOSE k \in 1..Len(Catalog) : Catalog[k].id = id]

PoolIndex(id) ==
    CHOOSE i \in 1..Len(request.all_games) : request.all_games[i].id = id

\* the call scored the pool against the favourites
SimilarityPath ==
    /\ ~not_enough_data(request.user_play_history, request.all_games)
    /\ \E i \in 1..Len(request.user_play_history) :
         /\ request.user_play_history[i].game_id \in PoolIds
         /\ request.user_play_history[i].game_id
              \in Range(get_favorite_games(request.user_play_history))

\* positions that hold both an item and its score
Scored == DOMAIN response.game_ids \cap DOMAIN response.scores

\* C1: no item whose id is in the play history (already played) appears in
\* the returned list, on any path, for any pool, history and limit.
C1_Exclusion ==
    Responded =>
        \A i \in DOMAIN response.game_ids :
            response.game_ids[i] \notin PlayedIds

ColdStart ==
    /\ Responded
    /\ not_enough_data(request.user_play_history, request.all_games)
    /\ request.limit >= 1

\* the returned ids are the top `limit` of the pool by rating descending,
\* then likes descending
TopByPopularity ==
    LET ids == response.game_ids
        returned == Range(ids)
    IN  /\ Len(ids) = Min(request.limit, Len(request.all_games))
        /\ returned \subseteq PoolIds
        /\ \A i, j \in DOMAIN ids :
             i < j => /\ ids[i] # ids[j]
                      /\ ~popular_lt(Game(ids[i]), Game(ids[j]))
        /\ \A a \in returned, b \in PoolIds \ returned :
             ~popular_lt(Game(a), Game(b))

Annotated(explanation) ==
    \A i \in DOMAIN response.game_ids :
        /\ i \in DOMAIN response.scores
        /\ response.scores[i] = ZeroScore
        /\ i \in DOMAIN response.explanations
        /\ response.explanations[i] = explanation

\* equal (rating, likes) are returned in pool order, so the output is a
\* function of the pool and the limit
PopularTiesInPoolOrder ==
    \A i, j \in DOMAIN response.game_ids :
        (i < j /\ ~popular_lt(Game(response.game_ids[j]),
                              Game(response.game_ids[i])))
            => PoolIndex(response.game_ids[i]) < PoolIndex(response.game_ids[j])

\* C8 as stated: with no play history or a pool of fewer than 2 items the
\* ranker returns the top `limit` items by rating descending then
\* popularity descending, each with score 0.0 and explanation
\* "Popular item".
C8_Original == ColdStart => (TopByPopularity /\ Annotated("Popular item"))

\* C8 amended: ... each with score 0.0 and explanation "Popular game"; the
\* output is determined by the pool and the limit.
C8_ColdStart ==
    ColdStart =>
        /\ TopByPopularity
        /\ Annotated("Popular game")
        /\ PopularTiesInPoolOrder

\* a cold start that had to choose and order: no history, more games than
\* the limit
C8_Witness ==
    /\ ColdStart
    /\ request.user_play_history = <<>>
    /\ Len(request.all_games) > request.limit
    /\ Len(response.game_ids) >= 2
    /\ response.game_ids[1] > response.game_ids[2]

\* the call ended in an error response (HTTPException) instead of a list
Failed == "game_ids" \notin DOMAIN response

\* C12: a ranking call with limit < 1 fails with an error instead of
\* returning a list; for every limit >= 1 the returned list has at most
\* `limit` items.
C12_LimitChecked ==
    Responded =>
        IF request.limit < 1 THEN Failed
        ELSE ~Failed /\ Len(response.game_ids) <= request.limit

\* the candidates of a call: the pool items the user has not played
Candidates == PoolIds \ PlayedIds

\* C13: played items are removed before truncation: for every pool,
\* history and limit >= 1 the number of returned items is
\* min(limit, number of pool items not played), and no error is raised.
C13_ExcludeThenTruncate ==
    (Responded /\ request.limit >= 1) =>
        /\ ~Failed
        /\ Len(response.game_ids) = Min(request.limit, Cardinality(Candidates))

\* the entries of history h by descending play_count, equal ones by
\* ascending game id (a history row carries no time of play)
ByPlaysThenId(h) ==
    LET n == Len(h)
        before_(a, b) == \/ a.play_count > b.play_count
                         \/ a.play_count = b.play_count /\ a.game_id < b.game_id
        pos(i) == 1 + Cardinality({ j \in 1..n : before_(h[j], h[i]) })
    IN  [p \in 1..n |-> h[CHOOSE i \in 1..n : pos(i) = p]]

\* C14: the favorites are exactly the items with play_count >= minPlays
\* (2) when there is one; otherwise the first fallbackCount (3) entries of
\* the history ordered by descending play_count, then recency, then
\* ascending item id, whatever the order the entries were supplied in; the
\* result is non-empty whenever the history is non-empty.
C14_Favorites ==
    output # NoOutput =>
        LET h == input.play_history
            ids == output.favorite_game_ids
            frequent == { h[i].game_id : i \in { k \in 1..Len(h) :
                                                  h[k].play_count >= MinPlays } }
        IN  /\ IF frequent # {}
               THEN Range(ids) = frequent /\ Len(ids) = Cardinality(frequent)
               ELSE ids = Map(Take(ByPlaysThenId(h), FallbackCount),
                              LAMBDA ph : ph.game_id)
            /\ h # <<>> => ids # <<>>

\* the numbering of the categories of games by first appearance: a
\* category gets the number of distinct categories that appear before it
FirstSeen(games) ==
    LET first(cat) == CHOOSE i \in 1..Len(games) :
                          /\ games[i].category = cat
                          /\ \A j \in 1..(i - 1) : games[j].category # cat
    IN  [cat \in { games[i].category : i \in 1..Len(games) } |->
            Cardinality({ games[j].category : j \in 1..(first(cat) - 1) })]

\* C20: vectorize is deterministic in its input: one row per item, the same
\* number of columns in every row, the category indices fixed by first-seen
\* order in the input list, and any two runs on the same list give the same
\* category indices and the same matrix.
C20_Deterministic ==
    LET runs == output.runs
    IN  /\ \A k \in DOMAIN runs :
             /\ Len(runs[k].feature_matrix) = Len(input.games)
             /\ \A i \in DOMAIN runs[k].feature_matrix :
                  Len(runs[k].feature_matrix[i]) = NFeatures
             /\ runs[k].category_map = FirstSeen(input.games)
        /\ \A j, k \in DOMAIN runs :
             /\ runs[j].category_map = runs[k].category_map
             /\ runs[j].feature_matrix = runs[k].feature_matrix

\* the documented end-to-end scenario: pool [1, 2, 3], item 1 played three
\* times, limit 2 (the played ids are the ids of the history)
ScenarioRequest ==
    [user_play_history |-> << [game_id |-> 1, play_count |-> 3] >>,
     all_games |-> << Catalog[1], Catalog[2], Catalog[3] >>,
     limit |-> 2]

\* the position of item id in the returned list (0 when it is absent)
Rank(id) ==
    IF \E i \in DOMAIN response.game_ids : response.game_ids[i] = id
    THEN CHOOSE i \in DOMAIN response.game_ids : response.game_ids[i] = id
    ELSE 0

\* the explanations of item id against favourite f that have a difficulty
\* clause
WithDifficultyMatch(id, f) ==
    { "Similar to " \o Game(f).title \o " (same difficulty: "
          \o Game(id).difficulty \o ")",
      "Similar to " \o Game(f).title \o " (same category: "
          \o Game(id).category \o ", same difficulty: "
          \o Game(id).difficulty \o ")" }

\* C23 as stated: for the pool {1: Math/medium/15/50/4.5/100,
\* 2: Math/hard/20/70/4.3/80, 3: Science/hard/20/60/4.6/90}, history
\* [{item 1, play_count 3}] and limit 2, item 2 is ranked above item 3, the
\* explanation of item 2 mentions a difficulty match, and item 1 is absent.
C23_Original ==
    (Responded /\ request = ScenarioRequest) =>
        /\ Rank(2) > 0
        /\ Rank(3) > 0
        /\ Rank(2) < Rank(3)
        /\ response.explanations[Rank(2)] \in WithDifficultyMatch(2, 1)
        /\ Rank(1) = 0

\* C23 amended: ... item 3 is ranked above item 2 (its similarity to item 1
\* is the larger one), the explanation of item 2 mentions the category
\* match and no difficulty match (item 2 is hard, item 1 medium), the
\* explanation of item 3 is the generic fallback, and item 1 is absent.
C23_Scenario ==
    (Responded /\ request = ScenarioRequest) =>
        /\ response.game_ids = << 3, 2 >>
        /\ ScoreLt(response.scores[2], response.scores[1])
        /\ response.explanations =
               << "Similar to Algebra Quiz",
                  "Similar to Algebra Quiz (same category: Math)" >>
        /\ response.explanations[Rank(2)] \notin WithDifficultyMatch(2, 1)
        /\ Rank(1) = 0

\* the scenario was run and returned two items
C23_Witness ==
    /\ Responded
    /\ request = ScenarioRequest
    /\ SimilarityPath
    /\ Len(response.game_ids) = 2

\* C29: in every recommendation response the three parallel lists
\* game_ids, scores and explanations have the same length, on the
\* similarity path and on both popularity fallback paths, including when
\* fewer than `limit` games are returned.
C29_ParallelLists ==
    (Responded /\ ~Failed) =>
        /\ Len(response.scores) = Len(response.game_ids)
        /\ Len(response.explanations) = Len(response.game_ids)

\* x and y are the same character or the two cases of one letter
SameLetter(x, y) ==
    \/ x = y
    \/ \E k \in DOMAIN UpperCase : {x, y} = {UpperCase[k], LowerCase[k]}

\* a = b, compared case-insensitively
EqualIgnoringCase(a, b) ==
    /\ Len(chars(a)) = Len(chars(b))
    /\ \A i \in DOMAIN chars(a) : SameLetter(chars(a)[i], chars(b)[i])

\* the difficulty feature the claim of C21 gives a difficulty string
Ordinal(difficulty) ==
    IF EqualIgnoringCase(difficulty, "easy") THEN 1
    ELSE IF EqualIgnoringCase(difficulty, "medium") THEN 2
    ELSE IF EqualIgnoringCase(difficulty, "hard") THEN 3
    ELSE 2

\* C21: the difficulty feature of every item is 1 for "easy", 2 for
\* "medium" and 3 for "hard" compared case-insensitively, and 2 for every
\* other string; no difficulty value makes vectorize fail (every run
\* returns a row of features for every item).
C21_DifficultyFeature ==
    \A k \in DOMAIN output.runs :
        /\ DOMAIN output.runs[k].features = DOMAIN input.games
        /\ DOMAIN output.runs[k].feature_matrix = DOMAIN input.games
        /\ \A i \in DOMAIN input.games :
             output.runs[k].features[i][1] = Ordinal(input.games[i].difficulty)

\* a level in mixed case next to a string that is no level
C21_Witness ==
    /\ Len(output.runs) >= 1
    /\ Len(input.games) = 2
    /\ input.games[1].difficulty = "hArD"
    /\ input.games[2].difficulty = "Expert"
    /\ output.runs[1].features[1][1] = 3
    /\ output.runs[1].features[2][1] = DefaultDifficulty

\* C22: explain(item, favoriteItem) appends a category clause when the two
\* items share the category and then a difficulty clause when they share
\* the difficulty, in that order, and returns the generic fallback
\* "Similar to {favoriteItem.title}" exactly when neither attribute
\* matches; the result depends only on the two items.
C22_Explain ==
    output # NoOutput =>
        LET item == input.recommended_game
            favoriteItem == input.favorite_game
            sameCategory == item.category = favoriteItem.category
            sameDifficulty == item.difficulty = favoriteItem.difficulty
            fallback == "Similar to " \o favoriteItem.title
            categoryClause == "same category: " \o item.category
            difficultyClause == "same difficulty: " \o item.difficulty
        IN  /\ (sameCategory /\ sameDifficulty) =>
                  output.explanation =
                      fallback \o " (" \o categoryClause \o ", "
                               \o difficultyClause \o ")"
            /\ (sameCategory /\ ~sameDifficulty) =>
                  output.explanation = fallback \o " (" \o categoryClause \o ")"
            /\ (~sameCategory /\ sameDifficulty) =>
                  output.explanation = fallback \o " (" \o difficultyClause \o ")"
            /\ (output.explanation = fallback)
                  <=> (~sameCategory /\ ~sameDifficulty)

\* both attributes match, on two different games: both clauses, in order
C22_Witness ==
    /\ output # NoOutput
    /\ input.recommended_game.id # input.favorite_game.id
    /\ input.recommended_game.category = input.favorite_game.category
    /\ input.recommended_game.difficulty = input.favorite_game.difficulty
    /\ output.explanation =
           "Similar to Algebra Quiz (same category: Math, same difficulty: hard)"

----------------------------------------------------------------------------
(* Properties of the concurrent runs *)

BothDone == \A r \in Requesters : sessions[r].pc = "done"

\* the rows two reviews leave when one runs after the other
Serial(q1, q2) ==
    UNION { calculate_next_review(c, q2, now, now)
            : c \in calculate_next_review(Flashcard(1), q1, now, now) }

\* C9: two concurrent review submissions for the same flashcard never
\* interleave: the final row is the one the two reviews give one after the
\* other in some order, total_reviews grows by exactly 2, no update is lost.
C9_Serializable ==
    (sessions # NoSessions /\ BothDone) =>
        /\ card.total_reviews = Flashcard(1).total_reviews + 2
        /\ card \in Serial(sessions[1].quality, sessions[2].quality)
                    \cup Serial(sessions[2].quality, sessions[1].quality)

\* C10: concurrent recommendation calls share no mutable state: the mean
\* and variance a call's matrix is transformed with are the ones computed
\* from that call's own pool.
C10_OwnParameters ==
    calls # NoCalls =>
        \A t \in Threads :
            (calls[t].pc = "done" /\ calls[t].X # NoMatrix)
                => calls[t].used = fit(calls[t].X)

====
